---------------------------- MODULE Spec2Model ----------------------------
(***************************************************************************)
(* Model of the matching engine and keyword classifier of the disaster     *)
(* relief backend (src/utils/disaster_utils.py).                           *)
(*                                                                         *)
(* Numbers.  The code computes with floats; the model computes the same    *)
(* quantities exactly:                                                     *)
(*   - a distance is a whole number of distance units, UnitsPerKm to the   *)
(*     kilometre (one unit = 4 m);                                         *)
(*   - a score is a fraction [num, den] or a sum of two fractions;         *)
(*   - round(x, 2) and round(x, 1) yield whole hundredths and tenths,      *)
(*     rounding to nearest, ties to even, as Python's round does.          *)
(* A dict is a function whose DOMAIN is its key set; None, a returned      *)
(* value and a raised exception are records tagged by "kind".  hubs is the *)
(* hub list as the caller passed it, hubs_after the same list as the call  *)
(* left it.                                                                *)
(***************************************************************************)
EXTENDS Integers, Sequences, FiniteSets, TLC

VARIABLES op, location, requested, available, hubs, max_km, text, result,
          hubs_after

\* the server (src/app.py): the tables victim_requests, hubs and donations,
\* the JSON body and the response of the last request handled, what the
\* handler of POST /api/victim-requests did on its way (whether it called
\* the geocoder, the coordinates it ran the hub matching with), and the
\* admin requests in progress
VARIABLES victim_requests, db_hubs, donations, data, response, geocoded,
          matched_with, admin

callvars ==
    <<location, requested, available, hubs, max_km, text, result, hubs_after>>

dbvars == <<victim_requests, db_hubs, donations>>

victimvars == <<victim_requests, data, response, geocoded, matched_with>>

servervars ==
    <<victim_requests, db_hubs, donations, data, response, geocoded,
      matched_with, admin>>

vars ==
    <<op, location, requested, available, hubs, max_km, text, result,
      hubs_after, victim_requests, db_hubs, donations, data, response,
      geocoded, matched_with, admin>>

---------------------------------------------------------------------------
(* Bounds of the explored inputs *)

MaxHubs == 2
MaxQty == 2
BigQty == 2001
MaxWords == 2
MaxStored == 1
MaxAdmin == 2

(* Program constants *)

MatchRadiusKm == 100
DefaultRadiusKm == 50
MatchWeight == 70
DistanceWeight == 30

UnitsPerKm == 1000 \div 4

---------------------------------------------------------------------------
(* Exact arithmetic standing for the float arithmetic of the code *)

Abs(x) == IF x < 0 THEN -x ELSE x

Min(a, b) == IF a <= b THEN a ELSE b

RECURSIVE GCD(_, _)
GCD(a, b) == IF b = 0 THEN a ELSE GCD(b, a % b)

\* the fraction n/d (n >= 0, d > 0) in lowest terms
Frac(n, d) == [num |-> n \div GCD(n, d), den |-> d \div GCD(n, d)]

\* f * n/d
Times(f, n, d) == Frac(f.num * n, f.den * d)

\* a/b < c/d for a, c >= 0 and b, d > 0, by continued-fraction descent
\* (no product is formed, so no intermediate value exceeds its inputs)
RECURSIVE FracLess(_, _, _, _)
FracLess(a, b, c, d) ==
    LET q1 == a \div b
        q2 == c \div d
        r1 == a % b
        r2 == c % d
    IN  IF q1 # q2 THEN q1 < q2
        ELSE IF r2 = 0 THEN FALSE
        ELSE IF r1 = 0 THEN TRUE
        ELSE FracLess(d, r2, b, r1)

\* the sum f + g of two non-negative fractions as a mixed number
\* whole + num/den with 0 <= num/den < 1
MixedSum(f, g) ==
    LET fn == (f.num % f.den) * g.den + (g.num % g.den) * f.den
        fd == f.den * g.den
        carry == IF fn >= fd THEN 1 ELSE 0
    IN  [whole |-> (f.num \div f.den) + (g.num \div g.den) + carry,
         num |-> fn - carry * fd,
         den |-> fd]

MixedLess(x, y) ==
    \/ x.whole < y.whole
    \/ x.whole = y.whole /\ FracLess(x.num, x.den, y.num, y.den)

\* nearest whole number to a mixed number, ties to the even neighbour
RoundMixed(x) ==
    IF 2 * x.num < x.den THEN x.whole
    ELSE IF 2 * x.num > x.den THEN x.whole + 1
    ELSE IF x.whole % 2 = 0 THEN x.whole
    ELSE x.whole + 1

\* round(f, digits) for a fraction f, in units of 10^-digits
Round(f, digits) ==
    RoundMixed(MixedSum(Times(f, 10 ^ digits, 1), Frac(0, 1)))

\* round(f + g, digits)
RoundSum(f, g, digits) ==
    RoundMixed(MixedSum(Times(f, 10 ^ digits, 1), Times(g, 10 ^ digits, 1)))

---------------------------------------------------------------------------
(* Values of the program *)

None == [kind |-> "None"]

Value(v) == [kind |-> "value", val |-> v]

ZeroDivisionError == [kind |-> "raise", exc |-> "ZeroDivisionError"]

EmptyDict == [k \in {} |-> 0]

\* {**d, key: v}
DictWith(d, key, v) ==
    [k \in DOMAIN d \cup {key} |-> IF k = key THEN v ELSE d[k]]

RECURSIVE SumValues(_)
SumValues(d) ==
    IF DOMAIN d = {} THEN 0
    ELSE LET k == CHOOSE k \in DOMAIN d : TRUE
         IN  d[k] + SumValues([j \in DOMAIN d \ {k} |-> d[j]])

---------------------------------------------------------------------------
(* calculate_distance: the points of the model lie on one meridian, a     *)
(* latitude being the arc length from the equator in distance units; the  *)
(* geodesic between two of them is the arc between their latitudes.       *)

calculate_distance(coord1, coord2) == Abs(coord1[1] - coord2[1])

round_distance(distance) == Round(Frac(distance, UnitsPerKm), 2)

---------------------------------------------------------------------------
(* match_items, calculate_match_score *)

\* the stock not looked at
HasStockAnyKey(avail, item) == item \in DOMAIN avail

HasStock(avail, item) == item \in DOMAIN avail /\ avail[item] > 0

match_items(req, avail) ==
    [item \in {i \in DOMAIN req : HasStock(avail, i)} |->
        Min(req[item], avail[item])]

calculate_match_score(req, avail) ==
    IF req = EmptyDict THEN Value(Frac(0, 1))
    ELSE LET total_requested == SumValues(req)
             matched == match_items(req, avail)
             total_matched == SumValues(matched)
         IN  IF total_requested = 0 THEN ZeroDivisionError
             ELSE Value(Frac(100 * total_matched, total_requested))

---------------------------------------------------------------------------
(* list.sort(key=...) is stable; with reverse=True equal keys keep their  *)
(* original order too.                                                    *)

RECURSIVE InsertAscending(_, _, _)
InsertAscending(sorted, x, key) ==
    IF Len(sorted) = 0 THEN <<x>>
    ELSE IF x[key] < Head(sorted)[key] THEN <<x>> \o sorted
    ELSE <<Head(sorted)>> \o InsertAscending(Tail(sorted), x, key)

RECURSIVE InsertDescending(_, _, _)
InsertDescending(sorted, x, key) ==
    IF Len(sorted) = 0 THEN <<x>>
    ELSE IF x[key] > Head(sorted)[key] THEN <<x>> \o sorted
    ELSE <<Head(sorted)>> \o InsertDescending(Tail(sorted), x, key)

RECURSIVE SortAscending(_, _)
SortAscending(list, key) ==
    IF Len(list) = 0 THEN <<>>
    ELSE InsertAscending(SortAscending(SubSeq(list, 1, Len(list) - 1), key),
                         list[Len(list)], key)

RECURSIVE SortDescending(_, _)
SortDescending(list, key) ==
    IF Len(list) = 0 THEN <<>>
    ELSE InsertDescending(SortDescending(SubSeq(list, 1, Len(list) - 1), key),
                          list[Len(list)], key)

---------------------------------------------------------------------------
(* find_nearby_hubs *)

hub_coords(hub) == <<hub["latitude"], hub["longitude"]>>

\* the boundary excluded
WithinRangeStrict(distance, max_distance) == distance < max_distance

WithinRange(distance, max_distance) == distance <= max_distance

\* the list nearby after the loop has visited hs[1..n]
RECURSIVE NearbyLoop(_, _, _, _)
NearbyLoop(loc, hs, max_distance, n) ==
    IF n = 0 THEN <<>>
    ELSE LET nearby == NearbyLoop(loc, hs, max_distance, n - 1)
             hub == hs[n]
             distance == calculate_distance(loc, hub_coords(hub))
         IN  IF WithinRange(distance, max_distance)
             THEN Append(nearby,
                         DictWith(hub, "distance_km", round_distance(distance)))
             ELSE nearby

\* The dicts the loops write to.  An object is its items and whether it is
\* the dict of the input list itself; a write to such an object shows in the
\* caller's list.

\* hub_with_distance = hub: no copy taken
hub_itself(hub) == [items |-> hub, is_input |-> TRUE]

\* hub.copy(): a new dict with the same items
hub_copy(hub) == [items |-> hub, is_input |-> FALSE]

\* obj[key] = v
SetItem(obj, key, v) == [obj EXCEPT !.items = DictWith(obj.items, key, v)]

\* the dict of the input list behind obj, once obj has been written to
InputAfter(hub, obj) == IF obj.is_input THEN obj.items ELSE hub

\* the caller's hub hs[n] after the loop of find_nearby_hubs; the list
\* nearby that is appended to and sorted is a new list, not hs
NearbyHubAfter(loc, hub, max_distance) ==
    LET distance == calculate_distance(loc, hub_coords(hub))
        hub_with_distance ==
            SetItem(hub_copy(hub), "distance_km", round_distance(distance))
    IN  IF WithinRange(distance, max_distance)
        THEN InputAfter(hub, hub_with_distance)
        ELSE hub

hubs_after_find_nearby_hubs(loc, hs, max_distance) ==
    [n \in 1 .. Len(hs) |-> NearbyHubAfter(loc, hs[n], max_distance)]

\* the sort left out
SortNearbyNot(nearby) == nearby

SortNearby(nearby) == SortAscending(nearby, "distance_km")

find_nearby_hubs(loc, hs, max_distance) ==
    Value(SortNearby(NearbyLoop(loc, hs, max_distance, Len(hs))))

---------------------------------------------------------------------------
(* find_best_hub_for_request *)

TooFar(distance) == distance > MatchRadiusKm * UnitsPerKm

hub_inventory(hub) ==
    IF "inventory" \in DOMAIN hub THEN hub["inventory"] ELSE EmptyDict

\* the match_score == 0 test left out
NoMatchNever(match_score) == FALSE

NoMatch(match_score) == match_score.num = 0

\* 100 / (1 + distance)
distance_score(distance) == Frac(100 * UnitsPerKm, UnitsPerKm + distance)

\* the two terms of (match_score * 0.7) + (distance_score * 0.3)
match_term(match_score) == Times(match_score, MatchWeight, 100)

distance_term(distance) == Times(distance_score(distance), DistanceWeight, 100)

combined_score(match_score, distance) ==
    MixedSum(match_term(match_score), distance_term(distance))

scored_hub(hub, distance, match_score) ==
    DictWith(DictWith(DictWith(hub,
        "distance_km", round_distance(distance)),
        "match_score", Round(match_score, 1)),
        "combined_score",
            RoundSum(match_term(match_score), distance_term(distance), 1))

\* the loop after it has visited hs[1..n]: the list scored_hubs, or the
\* exception that ended the loop
RECURSIVE ScoreLoop(_, _, _, _)
ScoreLoop(loc, req, hs, n) ==
    IF n = 0 THEN Value(<<>>)
    ELSE LET before == ScoreLoop(loc, req, hs, n - 1)
             hub == hs[n]
             distance == calculate_distance(loc, hub_coords(hub))
             score == calculate_match_score(req, hub_inventory(hub))
         IN  IF before.kind = "raise" THEN before
             ELSE IF TooFar(distance) THEN before
             ELSE IF score.kind = "raise" THEN score
             ELSE IF NoMatch(score.val) THEN before
             ELSE Value(Append(before.val,
                               scored_hub(hub, distance, score.val)))

\* {**hub, ...}: a dict display builds a new dict
dict_display(hub) == [items |-> hub, is_input |-> FALSE]

\* the caller's hub hs[n] after the loop of find_best_hub_for_request: the
\* loop writes only where it appends, and not at all once it has raised
BestHubAfter(loc, req, hs, n) ==
    LET before == ScoreLoop(loc, req, hs, n - 1)
        hub == hs[n]
        distance == calculate_distance(loc, hub_coords(hub))
        score == calculate_match_score(req, hub_inventory(hub))
    IN  IF before.kind = "raise" THEN hub
        ELSE IF TooFar(distance) THEN hub
        ELSE IF score.kind = "raise" THEN hub
        ELSE IF NoMatch(score.val) THEN hub
        ELSE InputAfter(hub,
                SetItem(SetItem(SetItem(dict_display(hub),
                    "distance_km", round_distance(distance)),
                    "match_score", Round(score.val, 1)),
                    "combined_score",
                        RoundSum(match_term(score.val),
                                 distance_term(distance), 1)))

hubs_after_find_best_hub_for_request(loc, req, hs) ==
    [n \in 1 .. Len(hs) |-> BestHubAfter(loc, req, hs, n)]

Reverse(list) == [i \in 1 .. Len(list) |-> list[Len(list) + 1 - i]]

\* a sort that orders ascending and then reverses: equal keys change places
SortScoredReversing(scored_hubs) ==
    Reverse(SortAscending(scored_hubs, "combined_score"))

SortScored(scored_hubs) == SortDescending(scored_hubs, "combined_score")

find_best_hub_for_request(loc, req, hs) ==
    LET loop == ScoreLoop(loc, req, hs, Len(hs))
    IN  IF loop.kind = "raise" THEN loop
        ELSE LET scored_hubs == SortScored(loop.val)
             IN  IF Len(scored_hubs) > 0 THEN Value(scored_hubs[1]) ELSE None

---------------------------------------------------------------------------
(* classify_disaster_type.  A string is the sequence of its characters.   *)

UpperLetters == <<"A", "B", "C", "D", "E", "F", "G", "H", "I", "J", "K", "L", "M", "N", "O", "P", "Q", "R", "S", "T", "U", "V", "W", "X", "Y", "Z">>

LowerLetters == <<"a", "b", "c", "d", "e", "f", "g", "h", "i", "j", "k", "l", "m", "n", "o", "p", "q", "r", "s", "t", "u", "v", "w", "x", "y", "z">>

lower_char(c) ==
    IF \E i \in 1 .. Len(UpperLetters) : UpperLetters[i] = c
    THEN LowerLetters[CHOOSE i \in 1 .. Len(UpperLetters) : UpperLetters[i] = c]
    ELSE c

\* the text taken as it is
lower_not(s) == s

\* str.lower()
lower(s) == [i \in 1 .. Len(s) |-> lower_char(s[i])]

\* word in s
Contains(s, word) ==
    \E k \in 0 .. Len(s) - Len(word) : SubSeq(s, k + 1, k + Len(word)) = word

\* the dict keywords, in the order it is written (the order it iterates in)
keywords == <<
    [label |-> "earthquake", words |-> <<
        \* earthquake
        <<"e", "a", "r", "t", "h", "q", "u", "a", "k", "e">>,
        \* tremor
        <<"t", "r", "e", "m", "o", "r">>,
        \* seismic
        <<"s", "e", "i", "s", "m", "i", "c">>,
        \* quake
        <<"q", "u", "a", "k", "e">>>>],
    [label |-> "flood", words |-> <<
        \* flood
        <<"f", "l", "o", "o", "d">>,
        \* flooding
        <<"f", "l", "o", "o", "d", "i", "n", "g">>,
        \* inundation
        <<"i", "n", "u", "n", "d", "a", "t", "i", "o", "n">>,
        \* deluge
        <<"d", "e", "l", "u", "g", "e">>>>],
    [label |-> "hurricane", words |-> <<
        \* hurricane
        <<"h", "u", "r", "r", "i", "c", "a", "n", "e">>,
        \* cyclone
        <<"c", "y", "c", "l", "o", "n", "e">>,
        \* typhoon
        <<"t", "y", "p", "h", "o", "o", "n">>,
        \* storm
        <<"s", "t", "o", "r", "m">>>>],
    [label |-> "wildfire", words |-> <<
        \* wildfire
        <<"w", "i", "l", "d", "f", "i", "r", "e">>,
        \* fire
        <<"f", "i", "r", "e">>,
        \* blaze
        <<"b", "l", "a", "z", "e">>,
        \* burning
        <<"b", "u", "r", "n", "i", "n", "g">>>>],
    [label |-> "tornado", words |-> <<
        \* tornado
        <<"t", "o", "r", "n", "a", "d", "o">>,
        \* twister
        <<"t", "w", "i", "s", "t", "e", "r">>>>],
    [label |-> "tsunami", words |-> <<
        \* tsunami
        <<"t", "s", "u", "n", "a", "m", "i">>,
        \* tidal wave
        <<"t", "i", "d", "a", "l", " ", "w", "a", "v", "e">>>>],
    [label |-> "landslide", words |-> <<
        \* landslide
        <<"l", "a", "n", "d", "s", "l", "i", "d", "e">>,
        \* mudslide
        <<"m", "u", "d", "s", "l", "i", "d", "e">>>>],
    [label |-> "volcano", words |-> <<
        \* volcano
        <<"v", "o", "l", "c", "a", "n", "o">>,
        \* volcanic
        <<"v", "o", "l", "c", "a", "n", "i", "c">>,
        \* eruption
        <<"e", "r", "u", "p", "t", "i", "o", "n">>>>],
    [label |-> "drought", words |-> <<
        \* drought
        <<"d", "r", "o", "u", "g", "h", "t">>,
        \* dry
        <<"d", "r", "y">>,
        \* water shortage
        <<"w", "a", "t", "e", "r", " ", "s", "h", "o", "r", "t", "a", "g", "e">>>>],
    [label |-> "blizzard", words |-> <<
        \* blizzard
        <<"b", "l", "i", "z", "z", "a", "r", "d">>,
        \* snowstorm
        <<"s", "n", "o", "w", "s", "t", "o", "r", "m">>,
        \* winter storm
        <<"w", "i", "n", "t", "e", "r", " ", "s", "t", "o", "r", "m">>>>]
>>

\* any(word in tweet_lower for word in words)
AnyWordIn(tweet_lower, words) ==
    \E w \in 1 .. Len(words) : Contains(tweet_lower, words[w])

\* the for loop from entry n of keywords on
RECURSIVE ClassifyFrom(_, _)
ClassifyFrom(tweet_lower, n) ==
    IF n > Len(keywords) THEN "unknown"
    ELSE IF AnyWordIn(tweet_lower, keywords[n].words) THEN keywords[n].label
    ELSE ClassifyFrom(tweet_lower, n + 1)

classify_disaster_type(tweet_text) ==
    Value(ClassifyFrom(lower(tweet_text), 1))

---------------------------------------------------------------------------
(* assess_severity *)

critical_keywords == <<
    \* death
    <<"d", "e", "a", "t", "h">>,
    \* dead
    <<"d", "e", "a", "d">>,
    \* killed
    <<"k", "i", "l", "l", "e", "d">>,
    \* catastrophic
    <<"c", "a", "t", "a", "s", "t", "r", "o", "p", "h", "i", "c">>,
    \* devastating
    <<"d", "e", "v", "a", "s", "t", "a", "t", "i", "n", "g">>,
    \* destroyed
    <<"d", "e", "s", "t", "r", "o", "y", "e", "d">>,
    \* massive
    <<"m", "a", "s", "s", "i", "v", "e">>,
    \* severe
    <<"s", "e", "v", "e", "r", "e">>,
    \* emergency
    <<"e", "m", "e", "r", "g", "e", "n", "c", "y">>
>>

high_keywords == <<
    \* major
    <<"m", "a", "j", "o", "r">>,
    \* serious
    <<"s", "e", "r", "i", "o", "u", "s">>,
    \* significant
    <<"s", "i", "g", "n", "i", "f", "i", "c", "a", "n", "t">>,
    \* heavy
    <<"h", "e", "a", "v", "y">>,
    \* damage
    <<"d", "a", "m", "a", "g", "e">>
>>

medium_keywords == <<
    \* moderate
    <<"m", "o", "d", "e", "r", "a", "t", "e">>,
    \* warning
    <<"w", "a", "r", "n", "i", "n", "g">>,
    \* alert
    <<"a", "l", "e", "r", "t">>
>>

\* the tiers tested from the lowest up
assess_severity_medium_first(tweet_text) ==
    LET tweet_lower == lower(tweet_text)
    IN  IF AnyWordIn(tweet_lower, medium_keywords) THEN Value("medium")
        ELSE IF AnyWordIn(tweet_lower, high_keywords) THEN Value("high")
        ELSE IF AnyWordIn(tweet_lower, critical_keywords) THEN Value("critical")
        ELSE Value("low")

assess_severity(tweet_text) ==
    LET tweet_lower == lower(tweet_text)
    IN  IF AnyWordIn(tweet_lower, critical_keywords) THEN Value("critical")
        ELSE IF AnyWordIn(tweet_lower, high_keywords) THEN Value("high")
        ELSE IF AnyWordIn(tweet_lower, medium_keywords) THEN Value("medium")
        ELSE Value("low")

---------------------------------------------------------------------------
(* Inputs *)

Items == {"water", "blankets"}

Dicts(quantities) == UNION {[keys -> quantities] : keys \in SUBSET Items}

RequestedDicts == Dicts(0 .. MaxQty \cup {BigQty})

AvailableDicts == Dicts(0 .. MaxQty)

\* the requests put to find_best_hub_for_request
HubRequests == Dicts({0, 1, BigQty})

\* the victim locations and the hub latitudes, in distance units: from 0 the
\* hubs are at 0, 10, 10.048, 100 and 100.008 km, from 1 at 0.004, 9.996,
\* 10.044, 99.996 and 100.004 km
Locations == {<<0, 0>>, <<1, 0>>}

HubLatitudes ==
    {0, 10 * UnitsPerKm, 10 * UnitsPerKm + 12,
     MatchRadiusKm * UnitsPerKm, MatchRadiusKm * UnitsPerKm + 2}

HubInventories == {[water |-> 1], [water |-> 0, blankets |-> 2]}

\* a hub as Hub.to_dict() yields it, and a hub record without inventory
HubRecords ==
    {[latitude |-> lat, longitude |-> 0, inventory |-> inv] :
        lat \in HubLatitudes, inv \in HubInventories}
    \cup {[latitude |-> lat, longitude |-> 0] :
            lat \in {0, MatchRadiusKm * UnitsPerKm}}

\* the lists of at most MaxHubs of the records: the records of a list carry
\* their position as id
ListsOf(records) ==
    UNION {{[i \in 1 .. n |-> DictWith(l[i], "id", i)] :
                l \in [1 .. n -> records]} : n \in 0 .. MaxHubs}

HubLists == ListsOf(HubRecords)

\* find_nearby_hubs reads no inventory: its hubs differ in latitude only
NearbyHubLists ==
    ListsOf({[latitude |-> lat, longitude |-> 0, inventory |-> EmptyDict] :
                lat \in HubLatitudes})

MaxDistances ==
    {0, 10 * UnitsPerKm - 1, DefaultRadiusKm * UnitsPerKm,
     MatchRadiusKm * UnitsPerKm}

\* the words the texts are made of
Vocabulary == {
    \* Earthquake
    <<"E", "a", "r", "t", "h", "q", "u", "a", "k", "e">>,
    \* FLOODING
    <<"F", "L", "O", "O", "D", "I", "N", "G">>,
    \* storm
    <<"s", "t", "o", "r", "m">>,
    \* snowstorm
    <<"s", "n", "o", "w", "s", "t", "o", "r", "m">>,
    \* winter
    <<"w", "i", "n", "t", "e", "r">>,
    \* fire
    <<"f", "i", "r", "e">>,
    \* tidal
    <<"t", "i", "d", "a", "l">>,
    \* wave
    <<"w", "a", "v", "e">>,
    \* sundry
    <<"s", "u", "n", "d", "r", "y">>,
    \* help
    <<"h", "e", "l", "p">>,
    \* Volcanic
    <<"V", "o", "l", "c", "a", "n", "i", "c">>
}

\* the texts of n words, single spaces between them
RECURSIVE TextsOfWords(_)
TextsOfWords(n) ==
    IF n = 0 THEN {<<>>}
    ELSE IF n = 1 THEN Vocabulary
    ELSE {t \o <<" ">> \o w : t \in TextsOfWords(n - 1), w \in Vocabulary}

\* every keyword as a text of its own
KeywordTexts ==
    UNION {{keywords[n].words[w] : w \in 1 .. Len(keywords[n].words)} :
                n \in 1 .. Len(keywords)}

Texts == KeywordTexts \cup UNION {TextsOfWords(n) : n \in 0 .. MaxWords}

\* the words the texts put to assess_severity are made of
SeverityVocabulary == {
    \* Massive
    <<"M", "a", "s", "s", "i", "v", "e">>,
    \* killed
    <<"k", "i", "l", "l", "e", "d">>,
    \* Emergency
    <<"E", "m", "e", "r", "g", "e", "n", "c", "y">>,
    \* HEAVY
    <<"H", "E", "A", "V", "Y">>,
    \* damage
    <<"d", "a", "m", "a", "g", "e">>,
    \* Warning
    <<"W", "a", "r", "n", "i", "n", "g">>,
    \* alert
    <<"a", "l", "e", "r", "t">>,
    \* moderate
    <<"m", "o", "d", "e", "r", "a", "t", "e">>,
    \* help
    <<"h", "e", "l", "p">>,
    \* Earthquake
    <<"E", "a", "r", "t", "h", "q", "u", "a", "k", "e">>
}

RECURSIVE SeverityTextsOfWords(_)
SeverityTextsOfWords(n) ==
    IF n = 0 THEN {<<>>}
    ELSE IF n = 1 THEN SeverityVocabulary
    ELSE {t \o <<" ">> \o w :
            t \in SeverityTextsOfWords(n - 1), w \in SeverityVocabulary}

SeverityTexts == UNION {SeverityTextsOfWords(n) : n \in 0 .. MaxWords}

---------------------------------------------------------------------------
(* The calls.  Each action is one call of a function on inputs of the     *)
(* sets above; op names the function, result is what the call produced.   *)

NoInput ==
    /\ location = <<0, 0>>
    /\ requested = EmptyDict
    /\ available = EmptyDict
    /\ hubs = <<>>
    /\ hubs_after = <<>>
    /\ max_km = 0
    /\ text = <<>>

\* no request handled yet
NoRequest ==
    /\ data = EmptyDict
    /\ response = None
    /\ geocoded = FALSE
    /\ matched_with = None

\* the server as the calls of the functions see it: no table, no request
NoServer ==
    /\ victim_requests = <<>>
    /\ db_hubs = <<>>
    /\ donations = <<>>
    /\ admin = <<>>
    /\ NoRequest

Init ==
    /\ op = "idle"
    /\ NoInput
    /\ result = None
    /\ NoServer

CallMatchItems ==
    /\ op = "idle"
    /\ \E req \in RequestedDicts, avail \in AvailableDicts :
        /\ requested' = req
        /\ available' = avail
        /\ result' = Value(match_items(req, avail))
    /\ op' = "match_items"
    /\ UNCHANGED <<location, hubs, hubs_after, max_km, text>>
    /\ UNCHANGED servervars

CallCalculateMatchScore ==
    /\ op = "idle"
    /\ \E req \in RequestedDicts, avail \in AvailableDicts :
        /\ requested' = req
        /\ available' = avail
        /\ result' = calculate_match_score(req, avail)
    /\ op' = "calculate_match_score"
    /\ UNCHANGED <<location, hubs, hubs_after, max_km, text>>
    /\ UNCHANGED servervars

CallFindNearbyHubs ==
    /\ op = "idle"
    /\ \E loc \in Locations, hs \in NearbyHubLists,
           max_distance \in MaxDistances :
        /\ location' = loc
        /\ hubs' = hs
        /\ max_km' = max_distance
        /\ result' = find_nearby_hubs(loc, hs, max_distance)
        /\ hubs_after' = hubs_after_find_nearby_hubs(loc, hs, max_distance)
    /\ op' = "find_nearby_hubs"
    /\ UNCHANGED <<requested, available, text>>
    /\ UNCHANGED servervars

CallFindBestHub ==
    /\ op = "idle"
    /\ \E loc \in Locations, req \in HubRequests, hs \in HubLists :
        /\ location' = loc
        /\ requested' = req
        /\ hubs' = hs
        /\ result' = find_best_hub_for_request(loc, req, hs)
        /\ hubs_after' = hubs_after_find_best_hub_for_request(loc, req, hs)
    /\ op' = "find_best_hub_for_request"
    /\ UNCHANGED <<available, max_km, text>>
    /\ UNCHANGED servervars

CallClassifyDisasterType ==
    /\ op = "idle"
    /\ \E tweet_text \in Texts :
        /\ text' = tweet_text
        /\ result' = classify_disaster_type(tweet_text)
    /\ op' = "classify_disaster_type"
    /\ UNCHANGED <<location, requested, available, hubs, hubs_after, max_km>>
    /\ UNCHANGED servervars

CallAssessSeverity ==
    /\ op = "idle"
    /\ \E tweet_text \in SeverityTexts :
        /\ text' = tweet_text
        /\ result' = assess_severity(tweet_text)
    /\ op' = "assess_severity"
    /\ UNCHANGED <<location, requested, available, hubs, hubs_after, max_km>>
    /\ UNCHANGED servervars

Next ==
    \/ CallMatchItems
    \/ CallCalculateMatchScore
    \/ CallFindNearbyHubs
    \/ CallFindBestHub
    \/ CallClassifyDisasterType
    \/ CallAssessSeverity

Spec == Init /\ [][Next]_vars

---------------------------------------------------------------------------
(* POST and GET /api/victim-requests (src/app.py, manage_victim_requests). *)
(* A latitude is an arc length in distance units as above; the hubs of the *)
(* table lie on the meridian of longitude 1.                               *)

\* d.get(key)
Get(d, key) == IF key \in DOMAIN d THEN Value(d[key]) ELSE None

\* d.get(key, default)
GetOr(d, key, default) == IF key \in DOMAIN d THEN d[key] ELSE default

\* the truth value of None or of a number: None, 0 and 0.0 are false
Truthy(v) == v.kind = "value" /\ v.val # 0

IntegrityError == [kind |-> "raise", exc |-> "IntegrityError"]

\* jsonify({'error': str(e)}), 500
ErrorResponse(e) == [status |-> 500, error |-> e.exc]

\* the JSON bodies posted
Bodies ==
    {[key \in keys |-> full[key]] :
        keys \in {k \in SUBSET {"victim_name", "location_name", "latitude",
                               "longitude", "requested_items"} :
                    "location_name" \in k},
        full \in [victim_name : {"Asha"}, location_name : {"Chennai"},
                  latitude : {0, 10 * UnitsPerKm}, longitude : {0, 1},
                  requested_items : {[water |-> 1], [water |-> 0]}]}

\* what geocode_location may return for the location name
GeocoderResults == {None, Value(<<10 * UnitsPerKm + 12, 1>>)}

\* the hubs table as [hub.to_dict() for hub in all_hubs]
HubTables ==
    {<<>>,
     <<[id |-> 1, latitude |-> 10 * UnitsPerKm, longitude |-> 1,
        inventory |-> [water |-> 1]],
       [id |-> 2, latitude |-> 0, longitude |-> 1,
        inventory |-> [water |-> 2, blankets |-> 1]]>>}

\* db.commit() of the new row: victim_name is nullable=False
CommitVictimRequest(row) ==
    IF row.victim_name = None THEN IntegrityError ELSE Value(row)

PostVictimRequest ==
    /\ Len(victim_requests) < MaxStored
    /\ \E body \in Bodies, coords \in GeocoderResults :
        LET given_latitude == Get(body, "latitude")
            given_longitude == Get(body, "longitude")
            consult == ~Truthy(given_latitude) \/ ~Truthy(given_longitude)
            latitude ==
                IF consult /\ coords # None THEN Value(coords.val[1])
                ELSE given_latitude
            longitude ==
                IF consult /\ coords # None THEN Value(coords.val[2])
                ELSE given_longitude
            requested_items == GetOr(body, "requested_items", EmptyDict)
            victim_request ==
                [id |-> Len(victim_requests) + 1,
                 victim_name |-> Get(body, "victim_name"),
                 location_name |-> Get(body, "location_name"),
                 latitude |-> IF Truthy(latitude) THEN latitude ELSE None,
                 longitude |-> IF Truthy(longitude) THEN longitude ELSE None,
                 requested_items |-> requested_items]
            committed == CommitVictimRequest(victim_request)
            matching == Truthy(latitude) /\ Truthy(longitude)
            best_hub ==
                find_best_hub_for_request(<<latitude.val, longitude.val>>,
                                          requested_items, db_hubs)
        IN  /\ consult \/ coords = None
            /\ data' = body
            /\ geocoded' = consult
            /\ IF committed.kind = "raise"
               THEN \* db.rollback(): the row is not stored
                    /\ victim_requests' = victim_requests
                    /\ matched_with' = None
                    /\ response' = ErrorResponse(committed)
               ELSE /\ victim_requests' =
                        Append(victim_requests, victim_request)
                    /\ matched_with' =
                        IF matching
                        THEN Value(<<latitude.val, longitude.val>>)
                        ELSE None
                    /\ response' =
                        IF matching /\ best_hub.kind = "raise"
                        THEN \* db.rollback() after the commit
                             ErrorResponse(best_hub)
                        ELSE [status |-> 201,
                              request |-> victim_request,
                              matched_hub |->
                                IF matching THEN best_hub ELSE None]
    /\ op' = "POST /api/victim-requests"
    /\ UNCHANGED <<db_hubs, donations, admin>>
    /\ UNCHANGED callvars

GetVictimRequests ==
    /\ response' = [status |-> 200, requests |-> victim_requests]
    /\ data' = EmptyDict
    /\ geocoded' = FALSE
    /\ matched_with' = None
    /\ op' = "GET /api/victim-requests"
    /\ UNCHANGED <<victim_requests, db_hubs, donations, admin>>
    /\ UNCHANGED callvars

VictimInit ==
    /\ op = "idle"
    /\ NoInput
    /\ result = None
    /\ victim_requests = <<>>
    /\ db_hubs \in HubTables
    /\ donations = <<>>
    /\ admin = <<>>
    /\ NoRequest

VictimNext ==
    \/ PostVictimRequest
    \/ GetVictimRequests

VictimSpec == VictimInit /\ [][VictimNext]_vars

---------------------------------------------------------------------------
(* PUT /api/admin/donations/<id> (src/app.py, admin_update_donation).      *)
(* Every request runs in a session of its own (get_db): it reads the row,  *)
(* changes its copy and commits, and requests of other clients may run     *)
(* between the read and the commit. `admin` holds the requests that have   *)
(* read their row. The timestamp of an entry is left out.                  *)

ADMIN_KEY == "admin123"

\* the note of the r-th request, and the empty note
NoteTexts == <<"picked up", "at the hub", "delivered", "signed for">>

AdminBodies(r) ==
    {[key \in keys |-> full[key]] :
        keys \in SUBSET {"tracking_status", "tracking_note", "hub_id"},
        full \in [tracking_status : {"in_transit"},
                  tracking_note : {NoteTexts[r], ""},
                  hub_id : {1}]}

\* the donations table, row by id
DonationTables ==
    {<<[id |-> 1, tracking_status |-> "pending", tracking_history |-> h]>> :
        h \in {<<>>, <<[status |-> "pending", note |-> "received"]>>}}

\* if tracking_note:
HasNote(body) ==
    "tracking_note" \in DOMAIN body /\ body["tracking_note"] # ""

\* the entry appended for a note
tracking_entry(body, donation) ==
    LET entry == [status |-> donation.tracking_status,
                  note |-> body["tracking_note"]]
    IN  IF "hub_id" \in DOMAIN body
        THEN [status |-> entry.status, note |-> entry.note,
              hub_id |-> body["hub_id"]]
        ELSE entry

\* the request's copy of the row after the assignments of the handler
updated_donation(body, donation) ==
    LET with_status ==
            [donation EXCEPT !.tracking_status =
                GetOr(body, "tracking_status", @)]
    IN  IF HasNote(body)
        THEN [with_status EXCEPT !.tracking_history =
                Append(@, tracking_entry(body, with_status))]
        ELSE with_status

\* db.commit(): the columns the session saw change are written to the row
\* stored now. `donation.tracking_history or []` is the loaded list itself
\* when it is not empty, the entry is appended to it in place and the same
\* object is assigned back, so the session may or may not see the change
\* (`history_seen`); an empty history is replaced by a new list and is seen.
flushed_donation(stored, loaded, updated, history_seen) ==
    [stored EXCEPT
        !.tracking_status =
            IF updated.tracking_status # loaded.tracking_status
            THEN updated.tracking_status ELSE @,
        !.tracking_history =
            IF updated.tracking_history # loaded.tracking_history
               /\ history_seen
            THEN updated.tracking_history ELSE @]

\* the request up to the query of the row
AdminBegin ==
    /\ Len(admin) < MaxAdmin
    /\ \E admin_key \in {ADMIN_KEY, "guess"}, donation_id \in {1, 2},
          body \in AdminBodies(Len(admin) + 1) :
        /\ data' = body
        /\ IF admin_key # ADMIN_KEY
           THEN /\ response' = [status |-> 401, error |-> "Unauthorized"]
                /\ admin' = admin
           ELSE IF donation_id \notin DOMAIN donations
           THEN /\ response' = [status |-> 404, error |-> "Donation not found"]
                /\ admin' = admin
           ELSE /\ response' = None
                /\ admin' = Append(admin, [pc |-> "loaded", data |-> body,
                                           donation |-> donations[donation_id]])
    /\ op' = "PUT /api/admin/donations"
    /\ UNCHANGED <<victim_requests, db_hubs, donations, geocoded, matched_with>>
    /\ UNCHANGED callvars

\* the rest of the request: the assignments, db.commit(), db.refresh()
AdminCommit ==
    /\ \E r \in DOMAIN admin :
        /\ admin[r].pc = "loaded"
        /\ LET body == admin[r].data
               loaded == admin[r].donation
               updated == updated_donation(body, loaded)
           IN  \E history_seen \in
                    IF loaded.tracking_history = <<>> THEN {TRUE} ELSE BOOLEAN :
                 LET row == flushed_donation(donations[loaded.id], loaded,
                                             updated, history_seen)
                 IN  /\ donations' = [donations EXCEPT ![loaded.id] = row]
                     /\ response' = [status |-> 200, donation |-> row]
                     /\ data' = body
        /\ admin' = [admin EXCEPT ![r].pc = "done"]
    /\ op' = "PUT /api/admin/donations"
    /\ UNCHANGED <<victim_requests, db_hubs, geocoded, matched_with>>
    /\ UNCHANGED callvars

DonationInit ==
    /\ op = "idle"
    /\ NoInput
    /\ result = None
    /\ victim_requests = <<>>
    /\ db_hubs = <<>>
    /\ donations \in DonationTables
    /\ admin = <<>>
    /\ NoRequest

DonationNext ==
    \/ AdminBegin
    \/ AdminCommit

DonationSpec == DonationInit /\ [][DonationNext]_vars

---------------------------------------------------------------------------
(* What the claims speak of, stated from the inputs of the call *)

Returned == result.kind = "value"

Raised == result.kind = "raise"

HubDistance(i) == calculate_distance(location, hub_coords(hubs[i]))

HubScore(i) == calculate_match_score(requested, hub_inventory(hubs[i]))

\* hub i passes both exclusion rules: distance <= 100 and match score > 0
Survives(i) ==
    /\ HubDistance(i) <= MatchRadiusKm * UnitsPerKm
    /\ HubScore(i).kind = "value"
    /\ HubScore(i).val.num > 0

Survivors == {i \in 1 .. Len(hubs) : Survives(i)}

HubCombined(i) == combined_score(HubScore(i).val, HubDistance(i))

BestCall == op = "find_best_hub_for_request"

NearbyCall == op = "find_nearby_hubs"

\* the position in hubs of the hub that find_best_hub_for_request returned
Best == result.val["id"]

---------------------------------------------------------------------------
(* C1: find_best_hub_for_request returns a hub only if its distance is    *)
(* <= 100 km and its match score is > 0, and returns None exactly when no *)
(* hub of the list satisfies both.                                        *)

C1_HubOnlyIfEligibleNoneIffNone ==
    BestCall =>
        /\ Returned => Survives(Best)
        /\ (result = None) <=> (Survivors = {})

(* C2: no surviving hub has a strictly larger unrounded combined_score    *)
(* than the returned hub.                                                 *)

C2_ReturnedIsUnroundedMaximum ==
    BestCall /\ Returned =>
        \A j \in Survivors : ~MixedLess(HubCombined(Best), HubCombined(j))

(* C3: when surviving hubs have equal combined_score, the one that comes  *)
(* first in the input list is returned: no surviving hub before the       *)
(* returned one has the same combined_score, rounded or unrounded.        *)

C3_TieGoesToFirst ==
    BestCall /\ Returned =>
        \A j \in Survivors :
            \/ HubCombined(j) = HubCombined(Best)
            \/ scored_hub(hubs[j], HubDistance(j), HubScore(j).val)
                    ["combined_score"] = result.val["combined_score"]
            => Best <= j

C3_Witness ==
    /\ BestCall /\ Returned
    /\ \E j \in Survivors : j > Best /\ HubCombined(j) = HubCombined(Best)

(* C4: calculate_match_score returns a number for every non-empty         *)
(* requested map of non-negative quantities, all 0 included, and every    *)
(* available map: it never raises a division by zero.                     *)

C4_ScoreNeverRaises ==
    op = "calculate_match_score" /\ requested # EmptyDict => Returned

(* C5: match_items returns exactly the requested items that available     *)
(* holds with quantity > 0, each with min(requested, available), so no    *)
(* matched quantity exceeds the requested or the available one.           *)

C5_MatchItemsIsClampedIntersection ==
    op = "match_items" =>
        /\ Returned
        /\ \A item \in Items :
            item \in DOMAIN result.val <=>
                /\ item \in DOMAIN requested
                /\ item \in DOMAIN available
                /\ available[item] > 0
        /\ \A item \in DOMAIN result.val :
            /\ result.val[item] <= requested[item]
            /\ result.val[item] <= available[item]
            /\ result.val[item] \in {requested[item], available[item]}

C5_Witness ==
    /\ op = "match_items"
    /\ \E item \in DOMAIN result.val : result.val[item] < requested[item]
    /\ \E item \in DOMAIN requested :
        item \in DOMAIN available /\ item \notin DOMAIN result.val

(* C6: calculate_match_score returns 0 for an empty requested map, 0 for  *)
(* an empty available map and a non-empty requested map, and otherwise    *)
(* 100 * matched / requested; with a positive requested total the result  *)
(* lies in [0, 100].                                                      *)

C6_ScoreValue ==
    op = "calculate_match_score" =>
        LET total == SumValues(requested)
            matched == SumValues(match_items(requested, available))
        IN  /\ requested = EmptyDict => result = Value(Frac(0, 1))
            /\ requested # EmptyDict /\ available = EmptyDict
                    => result = Value(Frac(0, 1))
            /\ total > 0 =>
                /\ Returned
                /\ result.val.num * total = 100 * matched * result.val.den
                /\ 0 <= result.val.num
                /\ result.val.num <= 100 * result.val.den

(* C7: the returned record never carries match_score = 0 nor              *)
(* distance_km > 100.                                                     *)

C7_FieldsRespectBounds ==
    BestCall /\ Returned =>
        /\ result.val["match_score"] # 0
        /\ result.val["distance_km"] <= MatchRadiusKm * 100

(* C7 as amended: the returned record never carries distance_km > 100;    *)
(* its match_score field is 0 only for a hub whose unrounded match score  *)
(* is positive and at most 0.05, which rounds to 0.0, and is positive for *)
(* every larger score.                                                    *)

C7_FieldsRespectBoundsUpToRounding ==
    BestCall /\ Returned =>
        LET score == HubScore(Best).val
        IN  /\ result.val["distance_km"] <= MatchRadiusKm * 100
            /\ result.val["match_score"] >= 0
            /\ result.val["match_score"] = 0 =>
                    score.num > 0 /\ 20 * score.num <= score.den
            /\ 20 * score.num > score.den => result.val["match_score"] > 0

C7_Witness ==
    /\ BestCall /\ Returned
    /\ result.val["match_score"] = 0
    /\ result.val["distance_km"] = MatchRadiusKm * 100
    /\ HubDistance(Best) < MatchRadiusKm * UnitsPerKm

(* C8: find_nearby_hubs includes a hub iff its unrounded distance is      *)
(* <= max_distance_km; each hub within range appears exactly once; an     *)
(* empty list or no hub within range yields an empty list, not an error.  *)

Occurrences(i) ==
    Cardinality({k \in 1 .. Len(result.val) : result.val[k]["id"] = i})

C8_NearbyIffWithinRange ==
    NearbyCall =>
        /\ Returned
        /\ \A i \in 1 .. Len(hubs) :
            Occurrences(i) = IF HubDistance(i) <= max_km THEN 1 ELSE 0
        /\ \A k \in 1 .. Len(result.val) :
            result.val[k]["id"] \in 1 .. Len(hubs)
        /\ (\A i \in 1 .. Len(hubs) : HubDistance(i) > max_km)
                => result.val = <<>>

C8_Witness ==
    /\ NearbyCall
    /\ \E i, j \in 1 .. Len(hubs) :
        /\ HubDistance(i) = max_km /\ Occurrences(i) = 1
        /\ HubDistance(j) > max_km /\ Occurrences(j) = 0

(* C9: the list find_nearby_hubs returns is sorted ascending by           *)
(* distance_km, hubs with equal distance_km keep their input order, and   *)
(* every distance_km is <= max_distance_km.  (distance_km is in           *)
(* hundredths of a km, max_km in distance units.)                         *)

NearbySortedStable ==
    \A k \in 1 .. Len(result.val) - 1 :
        LET a == result.val[k]
            b == result.val[k + 1]
        IN  \/ a["distance_km"] < b["distance_km"]
            \/ a["distance_km"] = b["distance_km"] /\ a["id"] < b["id"]

C9_SortedAndFieldWithinMax ==
    NearbyCall =>
        /\ NearbySortedStable
        /\ \A k \in 1 .. Len(result.val) :
            result.val[k]["distance_km"] * UnitsPerKm <= max_km * 100

(* C9 as amended: the list is sorted ascending by distance_km, hubs with  *)
(* equal distance_km keep their input order, and every distance_km is     *)
(* <= max_distance_km rounded to 2 decimals (so <= max_distance_km when   *)
(* that is a multiple of 0.01), the unrounded distance being              *)
(* <= max_distance_km.                                                    *)

C9_SortedAndFieldWithinRoundedMax ==
    NearbyCall =>
        /\ NearbySortedStable
        /\ \A k \in 1 .. Len(result.val) :
            /\ result.val[k]["distance_km"] <= round_distance(max_km)
            /\ HubDistance(result.val[k]["id"]) <= max_km
            /\ (max_km * 100) % UnitsPerKm = 0 =>
                result.val[k]["distance_km"] * UnitsPerKm <= max_km * 100

C9_Witness ==
    /\ NearbyCall
    /\ Len(result.val) = 2
    /\ result.val[1]["id"] > result.val[2]["id"]
    /\ result.val[2]["distance_km"] * UnitsPerKm > max_km * 100

(* C10: classify_disaster_type scans the labels in the order earthquake,  *)
(* flood, hurricane, wildfire, tornado, tsunami, landslide, volcano,      *)
(* drought, blizzard and returns the first one that has a keyword which   *)
(* is a substring of the lower-cased text; it returns "unknown" when no   *)
(* keyword of any label occurs, the empty string included, and never      *)
(* raises.                                                                *)

LabelOrder ==
    <<"earthquake", "flood", "hurricane", "wildfire", "tornado", "tsunami",
      "landslide", "volcano", "drought", "blizzard">>

\* the keywords the table gives a label
WordsOf(label) ==
    UNION {{keywords[n].words[w] : w \in 1 .. Len(keywords[n].words)} :
                n \in {k \in 1 .. Len(keywords) : keywords[k].label = label}}

\* a keyword of the label occurs in the call's text, lower-cased letter by
\* letter
Occurs(label) ==
    \E word \in WordsOf(label) :
        \E k \in 0 .. Len(text) - Len(word) :
            \A i \in 1 .. Len(word) : lower_char(text[k + i]) = word[i]

C10_FirstMatchingLabel ==
    op = "classify_disaster_type" =>
        /\ Returned
        /\ \A n \in 1 .. Len(LabelOrder) :
            result.val = LabelOrder[n] <=>
                /\ Occurs(LabelOrder[n])
                /\ \A m \in 1 .. n - 1 : ~Occurs(LabelOrder[m])
        /\ result.val = "unknown" <=>
                \A n \in 1 .. Len(LabelOrder) : ~Occurs(LabelOrder[n])
        /\ text = <<>> => result.val = "unknown"

C10_Witness ==
    /\ op = "classify_disaster_type"
    /\ result.val = "flood"
    /\ Occurs("blizzard") /\ Occurs("hurricane")
    /\ \E i \in 1 .. Len(text) : lower_char(text[i]) # text[i]

(* C11: assess_severity returns the highest tier (critical > high >       *)
(* medium) that has a keyword occurring in the lower-cased text, however  *)
(* many keywords of lower tiers occur too, and "low" when no tier keyword *)
(* occurs, the empty string included.                                     *)

\* a word of the list occurs in the call's text, lower-cased letter by letter
OccursAny(words) ==
    \E w \in 1 .. Len(words) :
        \E k \in 0 .. Len(text) - Len(words[w]) :
            \A i \in 1 .. Len(words[w]) :
                lower_char(text[k + i]) = words[w][i]

C11_HighestTierWins ==
    op = "assess_severity" =>
        /\ Returned
        /\ result.val = "critical" <=> OccursAny(critical_keywords)
        /\ result.val = "high" <=>
                OccursAny(high_keywords) /\ ~OccursAny(critical_keywords)
        /\ result.val = "medium" <=>
                /\ OccursAny(medium_keywords)
                /\ ~OccursAny(high_keywords)
                /\ ~OccursAny(critical_keywords)
        /\ result.val = "low" <=>
                /\ ~OccursAny(medium_keywords)
                /\ ~OccursAny(high_keywords)
                /\ ~OccursAny(critical_keywords)
        /\ text = <<>> => result.val = "low"

C11_Witness ==
    /\ op = "assess_severity"
    /\ result.val = "critical"
    /\ OccursAny(medium_keywords)
    /\ \E i \in 1 .. Len(text) : lower_char(text[i]) # text[i]

(* C12: find_nearby_hubs and find_best_hub_for_request leave their inputs *)
(* unchanged: after the call the hub list has the same length and order   *)
(* and every hub the same keys and values (no distance_km, match_score or *)
(* combined_score written onto it), and each returned record carries all  *)
(* of its input hub's fields with their values plus only the derived      *)
(* fields.                                                                *)

\* record r is the input hub it came from, with exactly the keys derived added
Enriches(r, derived) ==
    /\ r["id"] \in 1 .. Len(hubs)
    /\ DOMAIN r = DOMAIN hubs[r["id"]] \cup derived
    /\ \A k \in DOMAIN hubs[r["id"]] : r[k] = hubs[r["id"]][k]

C12_InputsUnchanged ==
    /\ NearbyCall =>
        /\ hubs_after = hubs
        /\ \A k \in 1 .. Len(result.val) :
            Enriches(result.val[k], {"distance_km"})
    /\ BestCall =>
        /\ hubs_after = hubs
        /\ Returned =>
            Enriches(result.val,
                     {"distance_km", "match_score", "combined_score"})

C12_Witness ==
    /\ NearbyCall
    /\ Len(hubs) = 2
    /\ Len(result.val) = 2
    /\ result.val[1]["id"] = 2
    /\ hubs_after = hubs

(* C13: POST /api/victim-requests is all-or-nothing: whenever the handler *)
(* answers with an error (HTTP 500), also when hub matching raises after  *)
(* the request was built, no victim request has been added to the stored  *)
(* victim requests.                                                       *)

PostHandled == op = "POST /api/victim-requests"

C13_ErrorStoresNothing ==
    [][(PostHandled /\ response.status = 500)'
            => victim_requests' = victim_requests]_vars

(* C14: given explicit latitude and longitude values, hub matching is run *)
(* with exactly those coordinates, also when one of them is 0; the        *)
(* geocoder is consulted, and matching skipped, only when a coordinate is *)
(* absent.                                                                *)

CoordinatesGiven == "latitude" \in DOMAIN data /\ "longitude" \in DOMAIN data

\* the handler got as far as the hub matching
ReachedMatching ==
    response.status = 201 \/ response.error = "ZeroDivisionError"

C14_GivenCoordinatesAreUsed ==
    PostHandled =>
        /\ CoordinatesGiven /\ ReachedMatching =>
                matched_with = Value(<<data["latitude"], data["longitude"]>>)
        /\ geocoded => ~CoordinatesGiven
        /\ ReachedMatching /\ matched_with = None => ~CoordinatesGiven

\* C15: a donation's tracking_history is append-only under admin updates:
\* whatever requests have run, interleaved or not, the stored history still
\* begins with every history a request has read, and it holds the entry of
\* every finished request that carried a tracking_note.
IsPrefix(s, t) == Len(s) <= Len(t) /\ SubSeq(t, 1, Len(s)) = s

C15_HistoryAppendOnly ==
    \A r \in DOMAIN admin :
        LET now == donations[admin[r].donation.id].tracking_history
        IN  /\ IsPrefix(admin[r].donation.tracking_history, now)
            /\ admin[r].pc = "done" /\ HasNote(admin[r].data) =>
                    \E k \in DOMAIN now :
                        now[k].note = admin[r].data["tracking_note"]

\* C16: every keyword of the table is effective for its own label: the text
\* that is exactly the keyword is classified as the label of the keyword.
C16_EveryKeywordEffective ==
    op = "classify_disaster_type" =>
        \A i \in DOMAIN keywords :
            \A w \in DOMAIN keywords[i].words :
                text = keywords[i].words[w] =>
                    result = Value(keywords[i].label)

=============================================================================
